---- MODULE Spec2Model ----
(***************************************************************************)
(* Latent cache of the inference server: StorageBackend (a key-value       *)
(* store on a Redis database, keys are SHA-256 digests of token prefixes,  *)
(* values are safetensors-encoded latent chunks) and LatentStoragingEngie  *)
(* (retrive / store_seq over cumulative-prefix chunk addresses).           *)
(*                                                                         *)
(* Tensors.  A token tensor is a sequence of token ids.  A latent tensor   *)
(* has its sequence-position axis on dim 1 (the axis store_seq slices and  *)
(* retrive concatenates); it is modelled as the sequence of its dim-1      *)
(* columns, each column abstracted to one number.                          *)
(*                                                                         *)
(* Python's None is the empty tuple, a returned object x is <<x>>.         *)
(***************************************************************************)
EXTENDS Integers, Sequences, FiniteSets, TLC

VARIABLES db, loop, battrs, last, prev, again,
          medium, pipes, wire, reader, base, addr

vars == <<db, loop, battrs, last, prev, again,
          medium, pipes, wire, reader, base, addr>>

\* the state of the medium, of the clients' pipelines and of a retrive in
\* progress, and the inputs of the address computation
env == <<medium, pipes, wire, reader, base, addr>>

(***************************************************************************)
(* Bounds of the model and the input sets drawn from them.                 *)
(***************************************************************************)
\* self.chunk_size, fixed at construction
ChunkSize == 2

\* longest token sequence handed to the engine
MaxSeqLen == 4

\* the distinct latent contents the caller computes for one position
Versions == {1, 2}

\* bytes per token id in the tensor's memory (numpy itemsize)
ItemSize == 2

\* the token sequence of n tokens that is 0 everywhere but 1 at position x
Stream(x, n) == [p \in 1..n |-> IF p = x THEN 1 ELSE 0]

\* the token sequences handed to the engine: the all-zero stream and the
\* stream with a 1 closing chunk 1, with all their prefixes, and the one-chunk
\* stream with a 1 closing chunk 0, with its prefixes
Seqs ==
    {Stream(x, n) : x \in {0, 2 * ChunkSize}, n \in 0..MaxSeqLen}
        \cup {Stream(ChunkSize, n) : n \in 0..ChunkSize}

\* the restored offsets handed to store_seq: token counts a retrive covers
Offsets == {r \in 0..MaxSeqLen : r % ChunkSize = 0}

\* every restored offset up to the longest sequence, chunk aligned or not
AnyOffsets == 0..MaxSeqLen

\* the all-zero stream and its prefixes
ZeroSeqs == {Stream(0, n) : n \in 0..MaxSeqLen}

\* content v of the latent for the n positions a+1 .. a+n of a sequence:
\* position a+p holds 10*v + a + p
Window(v, a, n) == [p \in 1..n |-> 10 * v + a + p]

\* the latent the caller hands to store_seq for the tokens of seq from
\* restored_offset r onward
Suffix(v, seq, r) == Window(v, r, IF Len(seq) > r THEN Len(seq) - r ELSE 0)

\* key and value lists for direct calls of put and batch_put
KeyTensors == {Stream(x, ChunkSize) : x \in {0, ChunkSize}}

ChunkValues == {Window(v, 0, ChunkSize) : v \in Versions}

KeyLists ==
    {<<>>, <<Stream(0, ChunkSize)>>, <<Stream(0, ChunkSize), Stream(0, ChunkSize)>>,
     <<Stream(0, ChunkSize), Stream(ChunkSize, ChunkSize)>>}

ValueLists ==
    {<<>>, <<Window(1, 0, ChunkSize)>>,
     <<Window(1, 0, ChunkSize), Window(2, 0, ChunkSize)>>}

None == <<>>

Some(x) == <<x>>

Min(a, b) == IF a < b THEN a ELSE b

(***************************************************************************)
(* Python and torch primitives.                                            *)
(***************************************************************************)
\* t[a:b] for 0 <= a: the bounds are clamped to the length, never an error
PySlice(t, a, b) == SubSeq(t, a + 1, Min(b, Len(t)))

\* torch.concat(list, dim=1)
RECURSIVE Concat(_)
Concat(list) == IF list = <<>> THEN <<>> ELSE Head(list) \o Concat(Tail(list))

\* numpy tobytes() of one integer: ItemSize bytes, little endian
RECURSIVE IntBytes(_, _)
IntBytes(x, n) == IF n = 0 THEN <<>> ELSE <<x % 256>> \o IntBytes(x \div 256, n - 1)

\* mutant of ToBytes: one byte per token id, the higher bytes dropped
RECURSIVE ToBytesNarrow(_)
ToBytesNarrow(t) ==
    IF t = <<>> THEN <<>> ELSE IntBytes(Head(t), 1) \o ToBytesNarrow(Tail(t))

\* input_token_chunk.cpu().numpy().tobytes()
RECURSIVE ToBytes(_)
ToBytes(t) == IF t = <<>> THEN <<>> ELSE IntBytes(Head(t), ItemSize) \o ToBytes(Tail(t))

\* hexdigest(): two hexadecimal digits per byte.  SHA-256 itself is modelled
\* as collision free on the bounded input domain: the digest of a byte
\* string is the string's own hexadecimal image.
RECURSIVE HexDigest(_)
HexDigest(b) ==
    IF b = <<>> THEN <<>>
    ELSE <<Head(b) \div 16, Head(b) % 16>> \o HexDigest(Tail(b))

(***************************************************************************)
(* StorageBackend                                                          *)
(***************************************************************************)
\* safetensors save(): a header carrying the shape, then the raw data
Serialize(latent) == <<Len(latent)>> \o latent

\* safetensors load(): the data the header describes
Deserialize(b) == SubSeq(b, 2, 1 + b[1])

\* mutant of Hashing: the digest of the last chunk's own tokens instead of the
\* cumulative prefix
HashingOwnChunk(t) ==
    HexDigest(ToBytes(PySlice(t, IF Len(t) > ChunkSize THEN Len(t) - ChunkSize ELSE 0,
                              Len(t))))

Hashing(t) == HexDigest(ToBytes(t))

\* mutant of RedisSet: APPEND instead of SET
RedisAppend(d, k, v) ==
    [x \in DOMAIN d \cup {k} |->
        IF x = k THEN (IF k \in DOMAIN d THEN d[k] \o v ELSE v) ELSE d[x]]

\* mutant of RedisSet: the write replaces the database by the one entry
RedisSetOnly(d, k, v) == [x \in {k} |-> v]

\* SET on the Redis database: creates or overwrites one entry
RedisSet(d, k, v) == [x \in DOMAIN d \cup {k} |-> IF x = k THEN v ELSE d[x]]

\* GET on the Redis database
RedisGet(d, k) == IF k \in DOMAIN d THEN Some(d[k]) ELSE None

\* how a call ends: it returns ret, or an exception leaves it
Ok(ret) == [out |-> "ok", ret |-> ret]

Raise == [out |-> "raised", ret |-> None]

\* mutant of Get: the reply is deserialized without the test for a miss
GetUnchecked(d, key) ==
    LET data == RedisGet(d, Hashing(key))
    IN  IF data = None THEN Raise ELSE Ok(Some(Deserialize(data[1])))

\* StorageBackend.get: the deserialized value, or None when the reply is falsy
Get(d, key) ==
    LET data == RedisGet(d, Hashing(key))
    IN  Ok(IF data # None /\ data[1] # <<>> THEN Some(Deserialize(data[1])) ELSE None)

\* the commands one batch_put queues on its pipeline: zip(keys, values)
RECURSIVE Queued(_, _)
Queued(keys, values) ==
    IF keys = <<>> \/ values = <<>> THEN <<>>
    ELSE <<<<Hashing(Head(keys)), Serialize(Head(values))>>>>
             \o Queued(Tail(keys), Tail(values))

\* pipe.execute(): the queued commands applied in order
RECURSIVE Execute(_, _)
Execute(d, cmds) ==
    IF cmds = <<>> THEN d
    ELSE Execute(RedisSet(d, Head(cmds)[1], Head(cmds)[2]), Tail(cmds))

(***************************************************************************)
(* LatentStoragingEngie                                                    *)
(***************************************************************************)
\* the results of the backend.get calls of retrive, in probe order: one per
\* complete chunk index, on the cumulative prefix ending with that chunk
Probes(d, seq) ==
    [i \in 1..(Len(seq) \div ChunkSize) |-> Get(d, PySlice(seq, 0, i * ChunkSize))]

\* mutant of RetrivedList: each hit replaces the list instead of joining it
RetrivedListLastOnly(probes) ==
    LET hits == SelectSeq(probes, LAMBDA g : g.ret # None)
    IN  IF hits = <<>> THEN <<>> ELSE <<hits[Len(hits)].ret[1]>>

\* retrived_list: the latents of the probes that did not return None
RetrivedList(probes) ==
    LET hits == SelectSeq(probes, LAMBDA g : g.ret # None)
    IN  [j \in 1..Len(hits) |-> hits[j].ret[1]]

\* lines 29-33 of retrive, reached when no backend.get raised: an exception
\* of backend.get is not caught and leaves retrive
Returned(probes) ==
    LET retrived_list == RetrivedList(probes)
    IN  IF \E i \in DOMAIN probes : probes[i].out = "raised" THEN Raise
        ELSE IF Len(retrived_list) > 0 THEN Ok(Some(Concat(retrived_list)))
        ELSE Ok(None)

Retrive(d, seq) == Returned(Probes(d, seq))

\* mutant of GetIO: a failed command is answered like a missing key
GetIOSwallowed(d, key, failed) == IF failed THEN Ok(None) ELSE Get(d, key)

\* StorageBackend.get when the GET command can fail: the exception of
\* self.r_sync.get (ConnectionError, TimeoutError) is not caught
GetIO(d, key, failed) == IF failed THEN Raise ELSE Get(d, key)

\* the backend.get calls of a retrive whose f-th GET fails (f = 0: none
\* fails): the loop ends with the exception, later chunks are not probed
ProbesIO(d, seq, f) ==
    LET n == Len(seq) \div ChunkSize
    IN  [i \in 1..(IF f \in 1..n THEN f ELSE n) |->
            GetIO(d, PySlice(seq, 0, i * ChunkSize), i = f)]

RetriveIO(d, seq, f) == Returned(ProbesIO(d, seq, f))

\* the GET commands a retrive sends, in order
Lookups(d, seq, f) ==
    [i \in 1..Len(ProbesIO(d, seq, f)) |-> Hashing(PySlice(seq, 0, i * ChunkSize))]

\* which of n commands sent in a row can be the first to fail (0: none):
\* none on a reachable medium, the first on an unreachable one, any on a
\* flaky one
FailAt(m, n) ==
    IF m = "up" \/ n = 0 THEN {0} ELSE IF m = "down" THEN {1} ELSE 0..n

\* mutant of ChunkedSeq: chunk_offset rounded up instead of down
ChunkedSeqCeil(seq, restored_offset) ==
    LET chunk_num == Len(seq) \div ChunkSize
        chunk_offset == (restored_offset + ChunkSize - 1) \div ChunkSize
    IN  [i \in 1..(chunk_num - chunk_offset) |->
            PySlice(seq, 0, (i - 1 + chunk_offset + 1) * ChunkSize)]

\* chunked_seq of store_seq
ChunkedSeq(seq, restored_offset) ==
    LET chunk_num == Len(seq) \div ChunkSize
        chunk_offset == restored_offset \div ChunkSize
    IN  [i \in 1..(chunk_num - chunk_offset) |->
            PySlice(seq, 0, (i - 1 + chunk_offset + 1) * ChunkSize)]

\* mutant of NeedsFlush: the test of line 44 is missing
NeedsFlushAlways(keys) == TRUE

\* line 44 of store_seq: the backend is called only for a non-empty list
NeedsFlush(keys) == Len(keys) > 0

\* mutant of ChunkedValue: every chunk gets the first slice of the value
ChunkedValueFirst(seq, value, restored_offset) ==
    LET chunk_num == Len(seq) \div ChunkSize
        chunk_offset == restored_offset \div ChunkSize
    IN  [i \in 1..(chunk_num - chunk_offset) |-> PySlice(value, 0, ChunkSize)]

\* mutant of ChunkedValue: the value is sliced at the chunk's index in the
\* sequence instead of its index in the new suffix
ChunkedValueAbsolute(seq, value, restored_offset) ==
    LET chunk_num == Len(seq) \div ChunkSize
        chunk_offset == restored_offset \div ChunkSize
    IN  [i \in 1..(chunk_num - chunk_offset) |->
            PySlice(value, (i - 1 + chunk_offset) * ChunkSize,
                    (i + chunk_offset) * ChunkSize)]

\* chunked_value of store_seq
ChunkedValue(seq, value, restored_offset) ==
    LET chunk_num == Len(seq) \div ChunkSize
        chunk_offset == restored_offset \div ChunkSize
    IN  [i \in 1..(chunk_num - chunk_offset) |->
            PySlice(value, (i - 1) * ChunkSize, i * ChunkSize)]

(***************************************************************************)
(* State.  db is Redis database 0 on port 6381; loop is the engine's loop  *)
(* attribute ("unset" before initialize_async); battrs are the attributes  *)
(* the backend object holds.                                               *)
(*                                                                         *)
(* History.  last records the most recent call: its arguments, its outcome *)
(* ("ok" when it returned, "raised" when an exception left it), its return *)
(* value, the database before it, the commands it sent to Redis in order,  *)
(* the number of pipeline execute() calls, in failed which of its commands *)
(* was the first to fail (0: none) and in medium the state of the medium   *)
(* during the call.  A store_seq record also holds, in prior, the result   *)
(* of the retrive of the same sequence when that was the call before it.   *)
(* prev is the store_seq call that a retrive directly followed, kept for   *)
(* the calls Tracked describes.  again says that last is a store_seq that  *)
(* repeated the arguments of the store_seq before it, both having flushed  *)
(* a batch.                                                                *)
(*                                                                         *)
(* Environment.  medium is the state of the Redis server as the clients    *)
(* see it: "up", "flaky" (a command may fail with a connection reset or a  *)
(* timeout) or "down" (every connection is refused).  pipes[c] is the      *)
(* batch_put that client c has in progress, wire[c] the commands client c  *)
(* sent that the server has not applied yet, reader the retrive in         *)
(* progress, base the database when the batches in progress began, and     *)
(* addr the inputs and results of one address computation.                 *)
(***************************************************************************)
\* the engine processes that share the Redis database
Clients == {1, 2}

NoPipe == [phase |-> "none"]

NoRead == [phase |-> "none"]

NoAddress == [phase |-> "none"]

\* the medium is reachable, no batch and no retrive is in progress
Still ==
    /\ medium = "up"
    /\ pipes = [c \in Clients |-> NoPipe]
    /\ wire = [c \in Clients |-> <<>>]
    /\ reader = NoRead
    /\ base = <<>>
    /\ addr = NoAddress

NoCall ==
    [op |-> "none", seq |-> <<>>, value |-> <<>>, r |-> 0, keys |-> <<>>,
     values |-> <<>>, out |-> "ok", ret |-> None, pre |-> <<>>, sent |-> <<>>,
     flushes |-> 0, prior |-> None, failed |-> 0, medium |-> "up"]

Call(op, seq, value, r, out, ret, sent, flushes) ==
    [op |-> op, seq |-> seq, value |-> value, r |-> r, keys |-> <<>>,
     values |-> <<>>, out |-> out, ret |-> ret, pre |-> db, sent |-> sent,
     flushes |-> flushes, prior |-> None, failed |-> 0, medium |-> medium]

\* the result of the retrive of seq, when that is the call before this one
Prior(seq) == IF last.op = "retrive" /\ last.seq = seq THEN Some(last.ret) ELSE None

Init ==
    /\ db = <<>>
    /\ loop = "unset"
    /\ battrs = {"chunk_size", "r_sync"}
    /\ last = NoCall
    /\ prev = NoCall
    /\ again = FALSE
    /\ Still

InitializeAsync ==
    /\ battrs' = battrs \cup {"r_async"}
    /\ loop' = "open"
    /\ last' = Call("initialize_async", <<>>, <<>>, 0, "ok", None, <<>>, 0)
    /\ prev' = NoCall
    /\ again' = FALSE
    /\ db' = db
    /\ UNCHANGED env

\* self.loop.close(): AttributeError before initialize_async
CloseAsync ==
    /\ loop' = IF loop = "unset" THEN loop ELSE "closed"
    /\ last' = Call("close_async", <<>>, <<>>, 0,
                    IF loop = "unset" THEN "raised" ELSE "ok", None, <<>>, 0)
    /\ prev' = NoCall
    /\ again' = FALSE
    /\ UNCHANGED <<db, battrs>>
    /\ UNCHANGED env

\* a store_seq call whose effect on the next retrive the properties below
\* state: one made on an empty database at offset 0, or one made at the
\* offset that the retrive of its sequence right before it covered
Tracked(call) ==
    /\ call.op = "store_seq"
    /\ \/ DOMAIN call.pre = {} /\ call.r = 0
       \/ /\ call.prior # None
          /\ call.r = IF call.prior[1] = None THEN 0 ELSE Len(call.prior[1][1])

DoRetrive ==
    \E seq \in Seqs :
      \E f \in FailAt(medium, Len(seq) \div ChunkSize) :
        /\ last' = [Call("retrive", seq, <<>>, 0, RetriveIO(db, seq, f).out,
                         RetriveIO(db, seq, f).ret, Lookups(db, seq, f), 0)
                        EXCEPT !.failed = f]
        /\ prev' = IF Tracked(last) THEN last ELSE NoCall
        /\ again' = FALSE
        /\ UNCHANGED <<db, loop, battrs>>
        /\ UNCHANGED env

DoGet ==
    \E key \in Seqs :
      \E f \in FailAt(medium, 1) :
        /\ last' = [Call("get", key, <<>>, 0, GetIO(db, key, f = 1).out,
                         GetIO(db, key, f = 1).ret, <<Hashing(key)>>, 0)
                        EXCEPT !.failed = f]
        /\ prev' = NoCall
        /\ again' = FALSE
        /\ UNCHANGED <<db, loop, battrs>>
        /\ UNCHANGED env

\* StorageBackend.put: self.redis.set(...), on an attribute no method assigns
DoPut ==
    \E key \in KeyTensors, value \in ChunkValues :
        LET cmds == <<<<Hashing(key), Serialize(value)>>>>
        IN  /\ IF "redis" \in battrs
               THEN /\ db' = Execute(db, cmds)
                    /\ last' = Call("put", key, value, 0, "ok", None, cmds, 0)
               ELSE /\ db' = db
                    /\ last' = Call("put", key, value, 0, "raised", None, <<>>, 0)
            /\ prev' = NoCall
            /\ again' = FALSE
            /\ UNCHANGED <<loop, battrs>>
            /\ UNCHANGED env

\* the commands of a flushed batch the server applied when the f-th step of
\* the round trip failed: the commands before it (the last step is the
\* reading of the replies)
Applied(cmds, f) == SubSeq(cmds, 1, f - 1)

\* StorageBackend.batch_put awaited directly: one pipeline on self.r_async,
\* one SET queued per zipped pair, one execute()
DoBatchPut ==
    \E keys \in KeyLists, values \in ValueLists :
      \E f \in FailAt(medium, Len(Queued(keys, values)) + 1) :
        LET cmds == Queued(keys, values)
            sent == [Call("batch_put", <<>>, <<>>, 0, "ok", None, cmds, 1)
                        EXCEPT !.keys = keys, !.values = values]
        IN  /\ IF "r_async" \in battrs /\ f = 0
               THEN /\ db' = Execute(db, cmds)
                    /\ last' = sent
               ELSE IF "r_async" \in battrs
               THEN /\ db' = Execute(db, Applied(cmds, f))
                    /\ last' = [sent EXCEPT !.out = "raised", !.failed = f,
                                            !.sent = Applied(cmds, f)]
               ELSE /\ db' = db
                    /\ last' = [sent EXCEPT !.out = "raised", !.sent = <<>>,
                                            !.flushes = 0]
            /\ prev' = NoCall
            /\ again' = FALSE
            /\ UNCHANGED <<loop, battrs>>
            /\ UNCHANGED env

\* mutant of Running: only a loop that was never created refuses to run
RunningUnlessUnset(l) == l # "unset"

\* self.loop.run_until_complete runs the coroutine: the attribute is set and
\* the loop is not closed
Running(l) == l = "open"

\* store_seq: no backend call without a complete new chunk; otherwise
\* self.loop.run_until_complete(batch_put(...)), which raises when the loop
\* attribute is unset (AttributeError) or the loop is closed (RuntimeError),
\* before the coroutine runs; an exception of pipe.execute() is not caught
StoreSeqOn(S, R) ==
    \E seq \in S, r \in R, v \in Versions :
      \E f \in FailAt(medium, Len(ChunkedSeq(seq, r)) + 1) :
        LET value == Suffix(v, seq, r)
            keys == ChunkedSeq(seq, r)
            values == ChunkedValue(seq, value, r)
            cmds == Queued(keys, values)
            call == [Call("store_seq", seq, value, r, "ok", None, <<>>, 0)
                        EXCEPT !.prior = Prior(seq)]
        IN  /\ IF ~NeedsFlush(keys)
               THEN /\ last' = call
                    /\ again' = FALSE
                    /\ db' = db
               ELSE IF ~Running(loop)
               THEN /\ last' = [call EXCEPT !.out = "raised"]
                    /\ again' = FALSE
                    /\ db' = db
               ELSE IF f # 0
               THEN /\ last' = [call EXCEPT !.out = "raised", !.failed = f,
                                            !.sent = Applied(cmds, f),
                                            !.flushes = 1]
                    /\ again' = FALSE
                    /\ db' = Execute(db, Applied(cmds, f))
               ELSE /\ db' = Execute(db, cmds)
                    /\ last' = [call EXCEPT !.sent = cmds, !.flushes = 1]
                    /\ again' = /\ last.op = "store_seq"
                                /\ last.out = "ok"
                                /\ last.flushes = 1
                                /\ last.seq = seq
                                /\ last.value = value
                                /\ last.r = r
            /\ prev' = NoCall
            /\ UNCHANGED <<loop, battrs>>
            /\ UNCHANGED env

\* store_seq with a restored offset a retrive can have covered
StoreSeq == StoreSeqOn(Seqs, Offsets)

\* store_seq with any restored offset, on the all-zero stream
StoreAnyOffset == StoreSeqOn(ZeroSeqs, AnyOffsets)

Next ==
    \/ InitializeAsync
    \/ CloseAsync
    \/ DoRetrive
    \/ DoGet
    \/ DoPut
    \/ DoBatchPut
    \/ StoreSeq

Spec == Init /\ [][Next]_vars

NextAnyOffset ==
    \/ InitializeAsync
    \/ CloseAsync
    \/ DoRetrive
    \/ DoGet
    \/ DoPut
    \/ DoBatchPut
    \/ StoreAnyOffset

\* the same calls, store_seq taking restored offsets that are not multiples
\* of chunk_size as well
SpecAnyOffset == Init /\ [][NextAnyOffset]_vars

(***************************************************************************)
(* Vocabulary of the properties.                                           *)
(***************************************************************************)
\* number of complete chunks of a token sequence
Chunks(seq) == Len(seq) \div ChunkSize

\* tokens_covered of a retrive result: the positions the returned latent has
Covered(ret) == IF ret = None THEN 0 ELSE Len(ret[1])

\* chunk index i (0-based) of seq has an entry in database d
Cached(d, seq, i) == Hashing(PySlice(seq, 0, (i + 1) * ChunkSize)) \in DOMAIN d

\* number of leading chunks of seq cached in d without a gap
RECURSIVE Leading(_, _, _)
Leading(d, seq, i) ==
    IF i < Chunks(seq) /\ Cached(d, seq, i) THEN Leading(d, seq, i + 1) ELSE i

\* what a retrieve that stops at the first miss returns on database d
LongestPrefix(d, seq) ==
    LET m == Leading(d, seq, 0)
    IN  IF m = 0 THEN None
        ELSE Some(Concat([i \in 1..m |->
                 Deserialize(d[Hashing(PySlice(seq, 0, i * ChunkSize))])]))

\* number of leading complete chunks two sequences share
Shared(A, B) ==
    Cardinality({m \in 1..Min(Chunks(A), Chunks(B)) :
                    PySlice(A, 0, m * ChunkSize) = PySlice(B, 0, m * ChunkSize)})

\* last is a retrive that directly followed a store_seq which returned
AfterStore == last.op = "retrive" /\ prev.op = "store_seq" /\ prev.out = "ok"

(***************************************************************************)
(* C1.  retrive stops at the first miss: what it returns is the latent of  *)
(* the chunks cached contiguously from chunk 0, without any hit that comes *)
(* after a miss, and None when chunk 0 is a miss.                          *)
(***************************************************************************)
C1_StopsAtFirstMiss ==
    last.op = "retrive" => last.out = "ok" /\ last.ret = LongestPrefix(db, last.seq)

(***************************************************************************)
(* C2.  On an empty database, store_seq(seq, latent, 0) for a sequence of  *)
(* k >= 1 complete chunks followed by retrive(seq) returns the first       *)
(* k*chunk_size positions of latent, and covers k*chunk_size tokens.       *)
(***************************************************************************)
C2_StoreThenRetrive ==
    (/\ AfterStore /\ DOMAIN prev.pre = {} /\ prev.r = 0 /\ prev.seq = last.seq
     /\ Chunks(last.seq) >= 1)
        => /\ last.out = "ok"
           /\ last.ret = Some(PySlice(prev.value, 0, Chunks(last.seq) * ChunkSize))
           /\ Covered(last.ret) = Chunks(last.seq) * ChunkSize

C2_Witness ==
    /\ AfterStore /\ DOMAIN prev.pre = {} /\ prev.r = 0 /\ prev.seq = last.seq
    /\ Chunks(last.seq) = 2
    /\ Len(last.seq) = MaxSeqLen
    /\ last.ret # None

(***************************************************************************)
(* C3.  On an empty database, store_seq(A, latent, 0) followed by          *)
(* retrive(B) returns the latent of the m leading complete chunks A and B  *)
(* share and nothing more, and None when m = 0.                            *)
(***************************************************************************)
C3_PrefixSharing ==
    (AfterStore /\ DOMAIN prev.pre = {} /\ prev.r = 0)
        => /\ last.out = "ok"
           /\ last.ret = IF Shared(prev.seq, last.seq) = 0 THEN None
                         ELSE Some(PySlice(prev.value, 0,
                                           Shared(prev.seq, last.seq) * ChunkSize))

C3_Witness ==
    /\ AfterStore /\ DOMAIN prev.pre = {} /\ prev.r = 0
    /\ Chunks(prev.seq) = 2 /\ Chunks(last.seq) = 2
    /\ Shared(prev.seq, last.seq) = 1
    /\ Covered(last.ret) = ChunkSize

(***************************************************************************)
(* C4.  Incremental store: when restored_offset is the token count the     *)
(* retrive(seq) before the call covered and the value holds the latent of  *)
(* the tokens from restored_offset onward, store_seq followed by           *)
(* retrive(seq) returns the latent retrieved before, followed by the new   *)
(* latent of the remaining complete chunks.                                *)
(***************************************************************************)
C4_IncrementalStore ==
    (/\ AfterStore
     /\ prev.seq = last.seq
     /\ prev.prior # None
     /\ prev.r = Covered(prev.prior[1]))
        => LET before == IF prev.prior[1] = None THEN <<>> ELSE prev.prior[1][1]
               added == PySlice(prev.value, 0,
                                Chunks(last.seq) * ChunkSize - prev.r)
           IN  /\ last.out = "ok"
               /\ last.ret = IF prev.prior[1] = None /\ added = <<>> THEN None
                             ELSE Some(before \o added)

(***************************************************************************)
(* C5.  Idempotence: a store_seq that repeats the store_seq before it      *)
(* (same sequence, value and restored offset, aligned or not) leaves the   *)
(* database, and what retrive returns for every sequence, as the first one *)
(* left them.                                                              *)
(***************************************************************************)
C5_StoreIdempotent ==
    again => /\ db = last.pre
             /\ \A s \in Seqs : Retrive(db, s) = Retrive(last.pre, s)

C5_Witness ==
    /\ again /\ last.out = "ok"
    /\ Len(last.sent) = 2
    /\ last.r % ChunkSize # 0

(***************************************************************************)
(* C6.  A miss is not an error: get on an address without an entry returns *)
(* None, and retrive of a sequence none of whose chunk addresses has an    *)
(* entry (a sequence shorter than one chunk included) returns None; both   *)
(* return normally.                                                        *)
(***************************************************************************)
C6_MissIsNotAnError ==
    /\ (last.op = "get" /\ Hashing(last.seq) \notin DOMAIN db)
          => (last.out = "ok" /\ last.ret = None)
    /\ (last.op = "retrive"
          /\ \A i \in 0..(Chunks(last.seq) - 1) : ~Cached(db, last.seq, i))
          => (last.out = "ok" /\ last.ret = None)

C6_Witness ==
    /\ last.op = "retrive"
    /\ Chunks(last.seq) = 2
    /\ \A i \in 0..(Chunks(last.seq) - 1) : ~Cached(db, last.seq, i)
    /\ DOMAIN db # {}
    /\ last.out = "ok" /\ last.ret = None

(***************************************************************************)
(* C7.  put(key, value) stores or overwrites exactly one entry: after it,  *)
(* get(key) returns value and the entries at all other addresses are as    *)
(* before.                                                                 *)
(***************************************************************************)
C7_PutStoresOneEntry ==
    last.op = "put"
        => /\ last.out = "ok"
           /\ Get(db, last.seq) = Ok(Some(last.value))
           /\ DOMAIN db = DOMAIN last.pre \cup {Hashing(last.seq)}
           /\ \A k \in DOMAIN last.pre \ {Hashing(last.seq)} : db[k] = last.pre[k]

(***************************************************************************)
(* C8.  A store_seq that returns writes exactly one entry for each         *)
(* complete chunk index i from chunk_offset on: at the address of          *)
(* seq[0 : (i+1)*chunk_size], the slice of the value for chunk             *)
(* i - chunk_offset; the entries go out in one batch_put and no other      *)
(* address is written.                                                     *)
(***************************************************************************)
C8_WritesEachNewChunk ==
    (last.op = "store_seq" /\ last.out = "ok")
        => LET seq == last.seq
               co == last.r \div ChunkSize
               n == IF Chunks(seq) > co THEN Chunks(seq) - co ELSE 0
               written == {Hashing(PySlice(seq, 0, (i + 1) * ChunkSize)) :
                              i \in co..(Chunks(seq) - 1)}
           IN  /\ Len(last.sent) = n
               /\ last.flushes = IF n = 0 THEN 0 ELSE 1
               /\ \A i \in co..(Chunks(seq) - 1) :
                     /\ last.sent[i - co + 1][1]
                           = Hashing(PySlice(seq, 0, (i + 1) * ChunkSize))
                     /\ Get(db, PySlice(seq, 0, (i + 1) * ChunkSize))
                           = Ok(Some(PySlice(last.value, (i - co) * ChunkSize,
                                             (i - co + 1) * ChunkSize)))
               /\ DOMAIN db = DOMAIN last.pre \cup written
               /\ \A k \in DOMAIN last.pre \ written : db[k] = last.pre[k]

C8_Witness ==
    /\ last.op = "store_seq" /\ last.out = "ok"
    /\ last.r % ChunkSize # 0 /\ last.r \div ChunkSize = 1
    /\ Chunks(last.seq) = 2
    /\ Len(last.sent) = 1
    /\ DOMAIN last.pre # {}
    /\ DOMAIN db # DOMAIN last.pre

(***************************************************************************)
(* C9.  store_seq is a no-op when the sequence has no complete chunk       *)
(* beyond the offset: it returns without a backend write and every entry   *)
(* is as before.                                                           *)
(***************************************************************************)
C9_NoNewChunkNoWrite ==
    (last.op = "store_seq" /\ Chunks(last.seq) <= last.r \div ChunkSize)
        => /\ last.out = "ok"
           /\ last.sent = <<>>
           /\ last.flushes = 0
           /\ db = last.pre

C9_Witness ==
    /\ last.op = "store_seq"
    /\ Chunks(last.seq) >= 1
    /\ Chunks(last.seq) <= last.r \div ChunkSize
    /\ last.r % ChunkSize # 0
    /\ last.r <= Len(last.seq)
    /\ DOMAIN db # {}
    /\ loop = "open"
    /\ last.out = "ok"

(***************************************************************************)
(* C10.  No entry is ever deleted: an address present in the database is   *)
(* present in every later state.                                           *)
(***************************************************************************)
C10_NeverDeleted == [][DOMAIN db \subseteq DOMAIN db']_vars

C10_Witness ==
    /\ last.flushes = 1
    /\ \E i \in 1..Len(last.sent) :
          /\ last.sent[i][1] \in DOMAIN last.pre
          /\ last.sent[i][1] \in DOMAIN db
          /\ db[last.sent[i][1]] # last.pre[last.sent[i][1]]

(***************************************************************************)
(* Chunk addressing as a function of the token sequence.  The inputs are   *)
(* two token sequences of one element type: their ids take ItemSize bytes. *)
(***************************************************************************)
\* token ids: 0, 1 and the least id with a non-zero second byte
TokenIds == {0, 1, 256}

SeqsOver(T, n) == UNION {[1..k -> T] : k \in 0..n}

\* the address retrive looks chunk index i of seq up at
RetriveAddress(seq, i) == Hashing(PySlice(seq, 0, (i + 1) * ChunkSize))

\* the address store_seq, called with restored offset r, writes chunk index i
\* of seq at
StoreAddress(seq, r, i) ==
    Queued(ChunkedSeq(seq, r),
           ChunkedValue(seq, Suffix(1, seq, r), r))[i - (r \div ChunkSize) + 1][1]

InitAddress ==
    /\ db = <<>>
    /\ loop = "unset"
    /\ battrs = {"chunk_size", "r_sync"}
    /\ last = NoCall
    /\ prev = NoCall
    /\ again = FALSE
    /\ medium = "up"
    /\ pipes = [c \in Clients |-> NoPipe]
    /\ wire = [c \in Clients |-> <<>>]
    /\ reader = NoRead
    /\ base = <<>>
    /\ \E A \in SeqsOver(TokenIds, MaxSeqLen), B \in SeqsOver({0, 256}, MaxSeqLen) :
          addr = [phase |-> "inputs", A |-> A, B |-> B]

\* the addresses retrive and store_seq compute for chunk index i of A and of B
ComputeAddress ==
    /\ addr.phase = "inputs"
    /\ \E i \in 0..(Min(Len(addr.A), Len(addr.B)) \div ChunkSize - 1) :
          \E r \in {0, i * ChunkSize} :
              addr' = [phase |-> "done", A |-> addr.A, B |-> addr.B, i |-> i, r |-> r,
                       get |-> <<RetriveAddress(addr.A, i), RetriveAddress(addr.B, i)>>,
                       set |-> <<StoreAddress(addr.A, r, i), StoreAddress(addr.B, r, i)>>]
    /\ UNCHANGED <<db, loop, battrs, last, prev, again, medium, pipes, wire, reader,
                   base>>

NextAddress == ComputeAddress

SpecAddress == InitAddress /\ [][NextAddress]_vars

(***************************************************************************)
(* C11.  Content-address invariant: for two token sequences A and B and a  *)
(* chunk index i complete in both, the address retrive or store_seq uses   *)
(* for chunk i of A equals the one used for chunk i of B if and only if    *)
(* the first (i+1)*chunk_size tokens of A and B are identical; retrive and *)
(* store_seq use the same address for the same chunk.                      *)
(***************************************************************************)
C11_ContentAddress ==
    addr.phase = "done"
        => LET same == PySlice(addr.A, 0, (addr.i + 1) * ChunkSize)
                          = PySlice(addr.B, 0, (addr.i + 1) * ChunkSize)
           IN  /\ addr.get[1] = addr.set[1]
               /\ addr.get[2] = addr.set[2]
               /\ \A x \in {addr.get[1], addr.set[1]}, y \in {addr.get[2], addr.set[2]} :
                     (x = y) <=> same

C11_Witness ==
    /\ addr.phase = "done"
    /\ addr.i = 1 /\ addr.r = ChunkSize
    /\ PySlice(addr.A, 0, ChunkSize) = PySlice(addr.B, 0, ChunkSize)
    /\ addr.A[2 * ChunkSize] = 0 /\ addr.B[2 * ChunkSize] = 256
    /\ addr.get[1] # addr.get[2]

(***************************************************************************)
(* The engine on a medium that can be unreachable or flaky.                *)
(***************************************************************************)
Mediums == {"up", "flaky", "down"}

\* LatentStoragingEngie(chunk_size) and the StorageBackend it creates: the
\* constructors assign attributes; redis.Redis(...) creates a client object
\* and connects when the first command is sent
Construct ==
    /\ loop' = "unset"
    /\ battrs' = {"chunk_size", "r_sync"}
    /\ last' = Call("__init__", <<>>, <<>>, 0, "ok", None, <<>>, 0)
    /\ prev' = NoCall
    /\ again' = FALSE
    /\ UNCHANGED <<db, env>>

\* the Redis server or the network changes state
MediumTurns ==
    /\ \E m \in Mediums \ {medium} : medium' = m
    /\ UNCHANGED <<db, loop, battrs, last, prev, again, pipes, wire, reader, base,
                   addr>>

\* store_seq of the longest all-zero sequence from offset 0
StoreZeros == StoreSeqOn({Stream(0, MaxSeqLen)}, {0})

InitFailure ==
    /\ db = <<>>
    /\ loop = "unset"
    /\ battrs = {"chunk_size", "r_sync"}
    /\ last = NoCall
    /\ prev = NoCall
    /\ again = FALSE
    /\ medium \in Mediums
    /\ pipes = [c \in Clients |-> NoPipe]
    /\ wire = [c \in Clients |-> <<>>]
    /\ reader = NoRead
    /\ base = <<>>
    /\ addr = NoAddress

NextFailure ==
    \/ Construct
    \/ MediumTurns
    \/ InitializeAsync
    \/ DoGet
    \/ DoRetrive
    \/ StoreZeros

SpecFailure == InitFailure /\ [][NextFailure]_vars

(***************************************************************************)
(* C12.  Construction on an unreachable medium is reported by construction *)
(* itself: the constructor does not complete successfully.                 *)
(***************************************************************************)
C12_ConstructionReportsUnreachable ==
    (last.op = "__init__" /\ last.medium = "down") => last.out = "raised"

(***************************************************************************)
(* C13.  A lookup that fails is never reported as a miss: a get whose GET  *)
(* command fails raises, and the retrive that issued it raises as well     *)
(* (it returns neither None nor a latent without the chunk); no GET is     *)
(* sent again and no later chunk is probed.                                *)
(***************************************************************************)
C13_FailureIsNotAMiss ==
    /\ (last.op = "get" /\ last.failed # 0)
          => (last.out = "raised" /\ Len(last.sent) = 1)
    /\ (last.op = "retrive" /\ last.failed # 0)
          => /\ last.out = "raised"
             /\ Len(last.sent) = last.failed
             /\ \A i, j \in DOMAIN last.sent : last.sent[i] = last.sent[j] => i = j

C13_Witness ==
    /\ last.op = "retrive" /\ last.failed = 2
    /\ last.medium = "flaky"
    /\ last.sent[1] \in DOMAIN db
    /\ last.sent[2] \notin DOMAIN db
    /\ last.out = "raised"

(***************************************************************************)
(* Engine processes sharing the Redis database.  A store_seq that flushes  *)
(* runs in steps: batch_put opens a pipeline, queues one SET per zipped    *)
(* pair in the client, sends the queue with one execute(), and the server  *)
(* applies what it received, one command at a time unless the pipeline is  *)
(* a transaction, in between the commands of other connections.  Every     *)
(* process has called initialize_async.                                    *)
(***************************************************************************)
\* the sequences the concurrent stores are about: two that share chunk 0 and
\* differ in chunk 1, and their common first chunk
ConcSeqs == {Stream(x, n) : x \in {0, 2 * ChunkSize}, n \in {ChunkSize, MaxSeqLen}}

\* the database after store_seq(seq, Suffix(v, seq, 0), 0) on an empty one
Stored(seq, v) ==
    Execute(<<>>, Queued(ChunkedSeq(seq, 0), ChunkedValue(seq, Suffix(v, seq, 0), 0)))

\* the databases the concurrent stores start from: the empty one and the
\* ones holding chunk 0 of the all-zero stream
Bases == {<<>>} \cup {Stored(Stream(0, ChunkSize), v) : v \in Versions}

\* mutant of Transaction: the pipeline wraps the batch in MULTI/EXEC
TransactionOn == TRUE

\* self.r_async.pipeline(transaction=False)
Transaction == FALSE

\* mutant of Zipped: the pairs are queued last chunk first
ZippedReversed(keys, values) ==
    LET n == Min(Len(keys), Len(values))
    IN  [i \in 1..n |-> <<keys[n + 1 - i], values[n + 1 - i]>>]

\* zip(keys, values): the pairs batch_put iterates over, in order
Zipped(keys, values) ==
    [i \in 1..Min(Len(keys), Len(values)) |-> <<keys[i], values[i]>>]

InitConcurrent ==
    /\ db \in Bases
    /\ base = db
    /\ loop = "open"
    /\ battrs = {"chunk_size", "r_sync", "r_async"}
    /\ last = NoCall
    /\ prev = NoCall
    /\ again = FALSE
    /\ medium = "up"
    /\ pipes = [c \in Clients |-> NoPipe]
    /\ wire = [c \in Clients |-> <<>>]
    /\ reader = NoRead
    /\ addr = NoAddress

\* what the steps of a store_seq leave alone
Frame == UNCHANGED <<loop, battrs, last, prev, again, medium, reader, base, addr>>

\* store_seq(seq, value, r) called in process c, up to the opening of the
\* pipeline: lines 36-45 and line 55
BeginStoreOn(c, S, R) ==
    /\ pipes[c] = NoPipe
    /\ \E seq \in S, r \in R, v \in Versions :
          LET value == Suffix(v, seq, r)
              keys == ChunkedSeq(seq, r)
              values == ChunkedValue(seq, value, r)
              call == [phase |-> "done", seq |-> seq, value |-> value, r |-> r,
                       keys |-> keys, values |-> values, todo |-> <<>>,
                       buffer |-> <<>>, trips |-> 0, out |-> "ok",
                       within |-> r <= ChunkSize * Leading(db, seq, 0)]
          IN  pipes' = [pipes EXCEPT ![c] =
                  IF ~NeedsFlush(keys) THEN call
                  ELSE IF ~Running(loop) THEN [call EXCEPT !.out = "raised"]
                  ELSE [call EXCEPT !.phase = "queueing",
                                    !.todo = Zipped(keys, values)]]
    /\ UNCHANGED <<db, wire>>
    /\ Frame

\* lines 56-59: one pair hashed, serialized and queued in the pipeline
PipeSet(c) ==
    /\ pipes[c].phase = "queueing"
    /\ pipes[c].todo # <<>>
    /\ pipes' = [pipes EXCEPT
          ![c].buffer = @ \o Queued(<<Head(pipes[c].todo)[1]>>,
                                    <<Head(pipes[c].todo)[2]>>),
          ![c].todo = Tail(@)]
    /\ UNCHANGED <<db, wire>>
    /\ Frame

\* line 60: execute() sends the queued commands in one round trip
PipeExecute(c) ==
    /\ pipes[c].phase = "queueing"
    /\ pipes[c].todo = <<>>
    /\ wire' = [wire EXCEPT ![c] = @ \o pipes[c].buffer]
    /\ pipes' = [pipes EXCEPT ![c].phase = "flushed", ![c].trips = @ + 1]
    /\ UNCHANGED db
    /\ Frame

\* the server applies commands it received from process c; with the last one
\* the replies return, execute() and store_seq return
ServerApply(c) ==
    /\ wire[c] # <<>>
    /\ LET k == IF Transaction THEN Len(wire[c]) ELSE 1
       IN  /\ db' = Execute(db, SubSeq(wire[c], 1, k))
           /\ wire' = [wire EXCEPT ![c] = SubSeq(@, k + 1, Len(@))]
           /\ pipes' = [pipes EXCEPT ![c].phase =
                           IF Len(wire[c]) = k THEN "done" ELSE @]
    /\ Frame

BeginStore == \E c \in Clients : BeginStoreOn(c, ConcSeqs, Offsets)

Queue == \E c \in Clients : PipeSet(c)

Flush == \E c \in Clients : PipeExecute(c)

Serve == \E c \in Clients : ServerApply(c)

NextConcurrent ==
    \/ BeginStore
    \/ Queue
    \/ Flush
    \/ Serve

SpecConcurrent == InitConcurrent /\ [][NextConcurrent]_vars

\* store_seq with any restored offset
BeginStoreAny == \E c \in Clients : BeginStoreOn(c, ConcSeqs, AnyOffsets)

NextConcurrentAny ==
    \/ BeginStoreAny
    \/ Queue
    \/ Flush
    \/ Serve

\* the same processes, store_seq taking restored offsets that are not
\* multiples of chunk_size as well
SpecConcurrentAny == InitConcurrent /\ [][NextConcurrentAny]_vars

\* the commands the batch_put of process c queues
Batch(c) == Queued(pipes[c].keys, pipes[c].values)

\* both processes called store_seq and both calls returned
BothDone == \A c \in Clients : pipes[c].phase = "done" /\ pipes[c].out = "ok"

\* the latents of the two calls are identical on the positions of the chunks
\* the two sequences share
SameOnShared ==
    LET p == pipes[1]
        q == pipes[2]
    IN  \A pos \in 1..(Shared(p.seq, q.seq) * ChunkSize) :
            (/\ pos > p.r /\ pos - p.r <= Len(p.value)
             /\ pos > q.r /\ pos - q.r <= Len(q.value))
                => p.value[pos - p.r] = q.value[pos - q.r]

(***************************************************************************)
(* C14.  Two concurrent store_seq calls (restored offsets being token      *)
(* counts a retrive covers) whose latents are identical on the chunks the  *)
(* sequences share, their SET commands applied in any interleaving, leave  *)
(* the database as the two calls made one after the other do, in either    *)
(* order.                                                                  *)
(***************************************************************************)
C14_ConcurrentStoresSerialize ==
    (BothDone /\ SameOnShared)
        => /\ db = Execute(Execute(base, Batch(1)), Batch(2))
           /\ db = Execute(Execute(base, Batch(2)), Batch(1))

C14_Witness ==
    /\ BothDone /\ SameOnShared
    /\ pipes[1].seq # pipes[2].seq
    /\ Len(Batch(1)) = 2 /\ Len(Batch(2)) = 2
    /\ Batch(1)[1] = Batch(2)[1]
    /\ base # <<>>
    /\ db[Batch(1)[1][1]] # base[Batch(1)[1][1]]

(***************************************************************************)
(* C17.  batch_put queues one SET per (key, value) pair in the order       *)
(* given, without sending it, and then sends the whole queue in one        *)
(* execute(): one round trip per call.  The batch is no transaction: the   *)
(* server applies its commands one at a time, in order.                    *)
(***************************************************************************)
C17_SingleFlush ==
    [][\A c \in Clients :
          LET p == pipes[c]
              q == pipes'[c]
          IN  /\ q.phase = "queueing" => (wire'[c] = <<>> /\ q.trips = 0)
              /\ Len(wire'[c]) > Len(wire[c])
                    => /\ p.phase = "queueing" /\ wire[c] = <<>>
                       /\ wire'[c] = Queued(p.keys, p.values)
                       /\ q.trips = 1
              /\ (q.phase \in {"flushed", "done"} /\ q.out = "ok")
                    => q.trips = IF Queued(q.keys, q.values) = <<>> THEN 0 ELSE 1
              /\ Len(wire'[c]) < Len(wire[c])
                    => /\ wire'[c] = Tail(wire[c])
                       /\ db' = RedisSet(db, Head(wire[c])[1], Head(wire[c])[2])
      ]_vars

C17_Witness ==
    /\ \A c \in Clients :
          /\ pipes[c].phase = "flushed"
          /\ pipes[c].trips = 1
          /\ Len(Batch(c)) = 2
          /\ wire[c] = Tail(Batch(c))
    /\ Batch(1)[2] # Batch(2)[2]

\* every store_seq so far was called with a restored offset within the
\* leading chunks of its sequence that were cached contiguously
Disciplined == \A c \in Clients : pipes[c].phase # "none" => pipes[c].within

\* the address of a chunk is present only if the addresses of all earlier
\* chunks of the sequence are
PrefixClosed(d) ==
    \A seq \in Seqs \cup ConcSeqs :
        \A i \in 0..(Chunks(seq) - 1) :
            Cached(d, seq, i) => \A j \in 0..(i - 1) : Cached(d, seq, j)

(***************************************************************************)
(* C18.  Prefix closure: when every store_seq is called with a restored    *)
(* offset no greater than chunk_size times the number of leading chunks    *)
(* of its sequence cached contiguously, the address of a chunk is present  *)
(* only if the addresses of the earlier chunks of the sequence are, in     *)
(* every state, the states between the writes of a batch included.         *)
(***************************************************************************)
C18_PrefixClosure == Disciplined => PrefixClosed(db)

C18_Witness ==
    /\ Disciplined
    /\ pipes[1].phase = "flushed" /\ Len(Batch(1)) = 2 /\ Len(wire[1]) = 1
    /\ pipes[1].r = 1
    /\ pipes[2].phase = "flushed" /\ pipes[2].r = ChunkSize
    /\ pipes[2].seq # pipes[1].seq
    /\ PrefixClosed(db)


(***************************************************************************)
(* A retrive running while another process stores: each backend.get of the *)
(* probe loop reads the database as it is at that moment.                  *)
(***************************************************************************)
\* retrive(seq) called: line 21; without a complete chunk it returns None
BeginRetrive ==
    /\ reader = NoRead
    /\ \E seq \in Seqs :
          reader' = [phase |-> IF Chunks(seq) = 0 THEN "done" ELSE "probing",
                     seq |-> seq, probes |-> <<>>, result |-> Returned(<<>>)]
    /\ UNCHANGED <<db, loop, battrs, last, prev, again, medium, pipes, wire, base,
                   addr>>

\* lines 23-27: the next backend.get; after the last one lines 29-33 return
ProbeStep ==
    /\ reader.phase = "probing"
    /\ LET i == Len(reader.probes)
           probes == Append(reader.probes,
                            Get(db, PySlice(reader.seq, 0, (i + 1) * ChunkSize)))
           done == Len(probes) = Chunks(reader.seq)
       IN  reader' = [reader EXCEPT !.probes = probes,
                                    !.phase = IF done THEN "done" ELSE "probing",
                                    !.result = IF done THEN Returned(probes) ELSE @]
    /\ UNCHANGED <<db, loop, battrs, last, prev, again, medium, pipes, wire, base,
                   addr>>

\* store_seq in the one storing process
BeginStoreOne == BeginStoreOn(1, Seqs, Offsets)

InitReading == InitConcurrent /\ db = <<>>

NextReading ==
    \/ BeginStoreOne
    \/ Queue
    \/ Flush
    \/ Serve
    \/ BeginRetrive
    \/ ProbeStep

SpecReading == InitReading /\ [][NextReading]_vars

(***************************************************************************)
(* C15.  A retrive(seq) whose lookups interleave with the writes of a      *)
(* concurrent store_seq(seq, latent, 0) on an initially empty database     *)
(* returns None or the latent of a run of chunks that starts at chunk 0:   *)
(* never a chunk without all the chunks before it.                         *)
(***************************************************************************)
C15_ConcurrentReadIsPrefix ==
    (/\ reader.phase = "done"
     /\ pipes[1].phase # "none" /\ pipes[1].seq = reader.seq /\ pipes[1].r = 0)
        => /\ reader.result.out = "ok"
           /\ \/ reader.result.ret = None
              \/ \E m \in 1..Chunks(reader.seq) :
                    reader.result.ret
                        = Some(PySlice(pipes[1].value, 0, m * ChunkSize))


\* the latent the model computes for a token sequence, one content per
\* position (all sequences of SpecAnyOffset are prefixes of one stream)
ModelLatent(seq) == Window(1, 0, Len(seq))

(***************************************************************************)
(* C16.  Different content is never written at the same address: in every  *)
(* store_seq whose value is the model's latent for the tokens from the     *)
(* restored offset on, for any restored offset between 0 and len(seq),     *)
(* the entry written for a chunk is the latent of the chunk's own          *)
(* chunk_size positions, so all writes to an address carry the same value. *)
(***************************************************************************)
C16_SameContentPerAddress ==
    (/\ last.op = "store_seq"
     /\ last.r <= Len(last.seq)
     /\ last.value = PySlice(ModelLatent(last.seq), last.r, Len(last.seq)))
        => \A j \in 1..Len(last.sent) :
              LET i == last.r \div ChunkSize + j - 1
              IN  last.sent[j]
                    = <<Hashing(PySlice(last.seq, 0, (i + 1) * ChunkSize)),
                        Serialize(PySlice(ModelLatent(last.seq), i * ChunkSize,
                                          (i + 1) * ChunkSize))>>


\* an address of seq is present while the address of an earlier chunk of seq
\* is absent
HasGap(d, seq) ==
    \E i \in 0..(Chunks(seq) - 1) :
        Cached(d, seq, i) /\ \E j \in 0..(i - 1) : ~Cached(d, seq, j)

(***************************************************************************)
(* C19.  With no write in progress, on a database whose key set is prefix  *)
(* closed, retrive (probe every complete chunk, concatenate every hit)     *)
(* returns what a retrieve that stops at the first miss returns; the two   *)
(* differ only where an address of the sequence is present while an        *)
(* earlier one is absent.                                                  *)
(***************************************************************************)
C19_EqualsStopAtFirstMiss ==
    last.op = "retrive"
        => /\ PrefixClosed(db)
                 => (last.out = "ok" /\ last.ret = LongestPrefix(db, last.seq))
           /\ last.ret # LongestPrefix(db, last.seq) => HasGap(db, last.seq)

C19_Witness ==
    /\ last.op = "retrive"
    /\ PrefixClosed(db)
    /\ Cardinality(DOMAIN db) >= 3
    /\ Chunks(last.seq) = 2
    /\ Leading(db, last.seq, 0) = 1
    /\ Covered(last.ret) = ChunkSize

(***************************************************************************)
(* C20.  Engine lifecycle: a store_seq with at least one complete new      *)
(* chunk writes only while initialize_async has been called and            *)
(* close_async has not been called since; before initialize_async or after *)
(* close_async it raises and leaves every entry as it was.  retrive and a  *)
(* store_seq without a complete new chunk return normally in all three     *)
(* states.                                                                 *)
(***************************************************************************)
C20_Lifecycle ==
    /\ (last.op = "store_seq" /\ NeedsFlush(ChunkedSeq(last.seq, last.r)))
          => IF loop = "open"
             THEN last.out = "ok" /\ last.flushes = 1
             ELSE last.out = "raised" /\ last.sent = <<>> /\ db = last.pre
    /\ (last.op = "store_seq" /\ ~NeedsFlush(ChunkedSeq(last.seq, last.r)))
          => (last.out = "ok" /\ db = last.pre)
    /\ last.op = "retrive" => last.out = "ok"

C20_Witness ==
    /\ loop = "closed"
    /\ last.op = "store_seq"
    /\ Len(ChunkedSeq(last.seq, last.r)) = 2
    /\ last.out = "raised"
    /\ DOMAIN db # {}

====
